---- MODULE Spec2Model ----
(***************************************************************************)
(* A model of RustFS: the paged Inode store (src/src/inode.rs) and the     *)
(* FileHandle cursor layer over it (src/src/file.rs).                      *)
(*                                                                         *)
(* The page geometry is scaled: PAGE_SIZE and LIST_SIZE stand for the      *)
(* source's 4096 and 256, and USIZE_BITS for the 64 bits of usize/isize.   *)
(* Every formula of the code is kept parametric in them, so 256 + 256*256  *)
(* is MaxPages and 269,500,416 is MaxFileSize below.                       *)
(*                                                                         *)
(* Option<T> is modelled as a sequence: None is <<>>, Some(x) is <<x>>.    *)
(* Arrays are 1-based sequences, so the code's a[i] is a[i + 1] here.      *)
(* A panic is modelled as a signalled failure that leaves the object in    *)
(* the state the unwinding finds it in.                                    *)
(***************************************************************************)
EXTENDS Integers, Sequences, FiniteSets, TLC

\* ---------------------------------------------------------------- constants
PAGE_SIZE == 2
LIST_SIZE == 2
USIZE_BITS == 5

\* ------------------------------------------------------------------- bounds
MaxLen == 4
MaxByte == 2
MaxTime == 1
MaxInodeOps == 2
MaxHandleOps == 5
MaxDirs == 2
MaxDirOps == 6

\* ------------------------------------------------------------------ helpers
USIZE == 2 ^ USIZE_BITS
ISIZE_MAX == 2 ^ (USIZE_BITS - 1) - 1
ISIZE_MIN == -(2 ^ (USIZE_BITS - 1))
MaxPages == LIST_SIZE + LIST_SIZE * LIST_SIZE
MaxFileSize == MaxPages * PAGE_SIZE

None == <<>>
Some(x) == <<x>>
Unwrap(o) == o[1]

Max(a, b) == IF a < b THEN b ELSE a

\* `x as isize` for a usize x; `x as usize` for an isize x
as_isize(x) == IF x > ISIZE_MAX THEN x - USIZE ELSE x
as_usize(x) == x % USIZE

ceil_div(x, y) == (x + y - 1) \div y

create_tlist == [i \in 1..LIST_SIZE |-> None]

ZeroPage == [i \in 1..PAGE_SIZE |-> 0]

Inode_new(time_now) ==
  [single |-> create_tlist,
   double |-> create_tlist,
   size |-> 0,
   mod_time |-> time_now,
   access_time |-> time_now,
   create_time |-> time_now]

\* get_or_alloc_page that counts the indirect pages only: its limit leaves out
\* the LIST_SIZE direct pages
get_or_alloc_page_nodirect(ino, num) ==
  IF num >= LIST_SIZE * LIST_SIZE
  THEN [panicked |-> TRUE, inode |-> ino]
  ELSE IF num < LIST_SIZE
  THEN [panicked |-> FALSE,
        inode |-> IF ino.single[num + 1] = None
                  THEN [ino EXCEPT !.single[num + 1] = Some(ZeroPage)]
                  ELSE ino]
  ELSE LET double_entry == num - LIST_SIZE
           slot == double_entry \div LIST_SIZE
           ino1 == IF ino.double[slot + 1] = None
                   THEN [ino EXCEPT !.double[slot + 1] = Some(create_tlist)]
                   ELSE ino
           entry_offset == double_entry % LIST_SIZE
       IN  [panicked |-> FALSE,
            inode |-> IF Unwrap(ino1.double[slot + 1])[entry_offset + 1] = None
                      THEN [ino1 EXCEPT !.double[slot + 1][1][entry_offset + 1] =
                                          Some(ZeroPage)]
                      ELSE ino1]

\* get_or_alloc_page that makes a new entry list without looking whether the
\* indirect block is there
get_or_alloc_page_renew(ino, num) ==
  IF num >= LIST_SIZE + LIST_SIZE * LIST_SIZE
  THEN [panicked |-> TRUE, inode |-> ino]
  ELSE IF num < LIST_SIZE
  THEN [panicked |-> FALSE,
        inode |-> IF ino.single[num + 1] = None
                  THEN [ino EXCEPT !.single[num + 1] = Some(ZeroPage)]
                  ELSE ino]
  ELSE LET double_entry == num - LIST_SIZE
           slot == double_entry \div LIST_SIZE
           ino1 == [ino EXCEPT !.double[slot + 1] = Some(create_tlist)]
           entry_offset == double_entry % LIST_SIZE
       IN  [panicked |-> FALSE,
            inode |-> [ino1 EXCEPT !.double[slot + 1][1][entry_offset + 1] =
                                     Some(ZeroPage)]]

\* get_or_alloc_page that allocates the first indirect block before it looks at
\* num
get_or_alloc_page_eager(ino, num) ==
  IF num >= LIST_SIZE + LIST_SIZE * LIST_SIZE
  THEN [panicked |-> TRUE, inode |-> ino]
  ELSE LET ino0 == IF ino.double[1] = None
                   THEN [ino EXCEPT !.double[1] = Some(create_tlist)]
                   ELSE ino
       IN  IF num < LIST_SIZE
           THEN [panicked |-> FALSE,
                 inode |-> IF ino0.single[num + 1] = None
                           THEN [ino0 EXCEPT !.single[num + 1] = Some(ZeroPage)]
                           ELSE ino0]
           ELSE LET double_entry == num - LIST_SIZE
                    slot == double_entry \div LIST_SIZE
                    ino1 == IF ino0.double[slot + 1] = None
                            THEN [ino0 EXCEPT !.double[slot + 1] = Some(create_tlist)]
                            ELSE ino0
                    entry_offset == double_entry % LIST_SIZE
                IN  [panicked |-> FALSE,
                     inode |-> IF Unwrap(ino1.double[slot + 1])[entry_offset + 1]
                                  = None
                               THEN [ino1 EXCEPT
                                       !.double[slot + 1][1][entry_offset + 1] =
                                         Some(ZeroPage)]
                               ELSE ino1]

\* the slot of page num, allocated (with its indirect block) when absent
get_or_alloc_page(ino, num) ==
  IF num >= LIST_SIZE + LIST_SIZE * LIST_SIZE
  THEN [panicked |-> TRUE, inode |-> ino]
  ELSE IF num < LIST_SIZE
  THEN [panicked |-> FALSE,
        inode |-> IF ino.single[num + 1] = None
                  THEN [ino EXCEPT !.single[num + 1] = Some(ZeroPage)]
                  ELSE ino]
  ELSE LET double_entry == num - LIST_SIZE
           slot == double_entry \div LIST_SIZE
           ino1 == IF ino.double[slot + 1] = None
                   THEN [ino EXCEPT !.double[slot + 1] = Some(create_tlist)]
                   ELSE ino
           entry_offset == double_entry % LIST_SIZE
       IN  [panicked |-> FALSE,
            inode |-> IF Unwrap(ino1.double[slot + 1])[entry_offset + 1] = None
                      THEN [ino1 EXCEPT !.double[slot + 1][1][entry_offset + 1] =
                                          Some(ZeroPage)]
                      ELSE ino1]

\* the slot of page num as it is (an Option<Page>), or a panic
get_page(ino, num) ==
  IF num >= LIST_SIZE + LIST_SIZE * LIST_SIZE
  THEN [panicked |-> TRUE, page |-> None]
  ELSE IF num < LIST_SIZE
  THEN [panicked |-> FALSE, page |-> ino.single[num + 1]]
  ELSE LET double_entry == num - LIST_SIZE
           slot == double_entry \div LIST_SIZE
           entry_offset == double_entry % LIST_SIZE
           entry_list == ino.double[slot + 1]
       IN  IF entry_list = None
           THEN [panicked |-> TRUE, page |-> None]
           ELSE [panicked |-> FALSE, page |-> Unwrap(entry_list)[entry_offset + 1]]

\* copy_to_page that stores src into a page it has zeroed first
copy_to_page_zeroed(ino, num, block_offset, src) ==
  LET put(page) == [k \in 1..PAGE_SIZE |->
                      IF k > block_offset /\ k <= block_offset + Len(src)
                      THEN src[k - block_offset]
                      ELSE 0]
  IN  IF num < LIST_SIZE
      THEN [ino EXCEPT !.single[num + 1] = Some(put(Unwrap(@)))]
      ELSE LET double_entry == num - LIST_SIZE
               slot == double_entry \div LIST_SIZE
               entry_offset == double_entry % LIST_SIZE
           IN  [ino EXCEPT !.double[slot + 1][1][entry_offset + 1] =
                             Some(put(Unwrap(@)))]

\* copy_nonoverlapping(src, page[block_offset..].as_mut_ptr(), Len(src)) into the
\* (present) page num
copy_to_page(ino, num, block_offset, src) ==
  LET put(page) == [k \in 1..PAGE_SIZE |->
                      IF k > block_offset /\ k <= block_offset + Len(src)
                      THEN src[k - block_offset]
                      ELSE page[k]]
  IN  IF num < LIST_SIZE
      THEN [ino EXCEPT !.single[num + 1] = Some(put(Unwrap(@)))]
      ELSE LET double_entry == num - LIST_SIZE
               slot == double_entry \div LIST_SIZE
               entry_offset == double_entry % LIST_SIZE
           IN  [ino EXCEPT !.double[slot + 1][1][entry_offset + 1] =
                             Some(put(Unwrap(@)))]

\* write_pass without the reset of block_offset after the first pass
write_pass_noreset(st, start, blocks_to_act_on, data, i) ==
  LET block_offset == st.block_offset
      num_bytes == IF i = blocks_to_act_on - 1
                   THEN Len(data) - st.written
                   ELSE PAGE_SIZE - block_offset
      got == get_or_alloc_page(st.inode, start + i)
  IN  IF got.panicked
      THEN [inode |-> got.inode, written |-> st.written,
            block_offset |-> block_offset, panicked |-> TRUE]
      ELSE [inode |-> copy_to_page(got.inode, start + i, block_offset,
                                   SubSeq(data, st.written + 1,
                                          st.written + num_bytes)),
            written |-> st.written + num_bytes,
            block_offset |-> block_offset,
            panicked |-> FALSE]

\* one pass of the loop of Inode::write, on st = [inode, written, block_offset,
\* panicked]
write_pass(st, start, blocks_to_act_on, data, i) ==
  LET block_offset == IF st.block_offset # 0 /\ i > 0 THEN 0 ELSE st.block_offset
      num_bytes == IF i = blocks_to_act_on - 1
                   THEN Len(data) - st.written
                   ELSE PAGE_SIZE - block_offset
      got == get_or_alloc_page(st.inode, start + i)
  IN  IF got.panicked
      THEN [inode |-> got.inode, written |-> st.written,
            block_offset |-> block_offset, panicked |-> TRUE]
      ELSE [inode |-> copy_to_page(got.inode, start + i, block_offset,
                                   SubSeq(data, st.written + 1,
                                          st.written + num_bytes)),
            written |-> st.written + num_bytes,
            block_offset |-> block_offset,
            panicked |-> FALSE]

RECURSIVE write_loop(_, _, _, _, _)
write_loop(st, start, blocks_to_act_on, data, i) ==
  IF i >= blocks_to_act_on \/ st.panicked
  THEN st
  ELSE write_loop(write_pass(st, start, blocks_to_act_on, data, i),
                  start, blocks_to_act_on, data, i + 1)

\* Inode_write with `self.size = last_byte` done unconditionally
Inode_write_setsize(ino, offset, data, time_now) ==
  LET block_offset == offset % PAGE_SIZE
      start == offset \div PAGE_SIZE
      blocks_to_act_on == ceil_div(block_offset + Len(data), PAGE_SIZE)
      st == write_loop([inode |-> ino, written |-> 0,
                        block_offset |-> block_offset, panicked |-> FALSE],
                       start, blocks_to_act_on, data, 0)
      last_byte == offset + st.written
  IN  IF st.panicked
      THEN [inode |-> st.inode, ret |-> 0, panicked |-> TRUE]
      ELSE [inode |-> [st.inode EXCEPT
                         !.size = last_byte,
                         !.mod_time = time_now,
                         !.access_time = time_now],
            ret |-> st.written,
            panicked |-> FALSE]

\* Inode_write that stamps mod_time and leaves access_time
Inode_write_modonly(ino, offset, data, time_now) ==
  LET block_offset == offset % PAGE_SIZE
      start == offset \div PAGE_SIZE
      blocks_to_act_on == ceil_div(block_offset + Len(data), PAGE_SIZE)
      st == write_loop([inode |-> ino, written |-> 0,
                        block_offset |-> block_offset, panicked |-> FALSE],
                       start, blocks_to_act_on, data, 0)
      last_byte == offset + st.written
  IN  IF st.panicked
      THEN [inode |-> st.inode, ret |-> 0, panicked |-> TRUE]
      ELSE [inode |-> [st.inode EXCEPT
                         !.size = IF @ < last_byte THEN last_byte ELSE @,
                         !.mod_time = time_now],
            ret |-> st.written,
            panicked |-> FALSE]

\* Inode::write(offset, data), the clock reading time_now at its end:
\* [inode, ret, panicked]
Inode_write(ino, offset, data, time_now) ==
  LET block_offset == offset % PAGE_SIZE
      start == offset \div PAGE_SIZE
      blocks_to_act_on == ceil_div(block_offset + Len(data), PAGE_SIZE)
      st == write_loop([inode |-> ino, written |-> 0,
                        block_offset |-> block_offset, panicked |-> FALSE],
                       start, blocks_to_act_on, data, 0)
      last_byte == offset + st.written
  IN  IF st.panicked
      THEN [inode |-> st.inode, ret |-> 0, panicked |-> TRUE]
      ELSE [inode |-> [st.inode EXCEPT
                         !.size = IF @ < last_byte THEN last_byte ELSE @,
                         !.mod_time = time_now,
                         !.access_time = time_now],
            ret |-> st.written,
            panicked |-> FALSE]

\* one pass of the loop of Inode::read, on st = [data, read, block_offset, panicked]
read_pass(ino, st, start, blocks_to_act_on, i) ==
  LET block_offset == IF st.block_offset # 0 /\ i > 0 THEN 0 ELSE st.block_offset
      num_bytes == IF i = blocks_to_act_on - 1
                   THEN Len(st.data) - st.read
                   ELSE PAGE_SIZE - block_offset
      got == get_page(ino, start + i)
  IN  IF got.panicked \/ got.page = None
      THEN [st EXCEPT !.block_offset = block_offset, !.panicked = TRUE]
      ELSE [data |-> [k \in 1..Len(st.data) |->
                        IF k > st.read /\ k <= st.read + num_bytes
                        THEN Unwrap(got.page)[block_offset + k - st.read]
                        ELSE st.data[k]],
            read |-> st.read + num_bytes,
            block_offset |-> block_offset,
            panicked |-> FALSE]

RECURSIVE read_loop(_, _, _, _, _)
read_loop(ino, st, start, blocks_to_act_on, i) ==
  IF i >= blocks_to_act_on \/ st.panicked
  THEN st
  ELSE read_loop(ino, read_pass(ino, st, start, blocks_to_act_on, i),
                 start, blocks_to_act_on, i + 1)

\* Inode::read(offset, data): [data, ret, panicked]
Inode_read(ino, offset, data) ==
  LET block_offset == offset % PAGE_SIZE
      start == offset \div PAGE_SIZE
      blocks_to_act_on == ceil_div(block_offset + Len(data), PAGE_SIZE)
      st == read_loop(ino, [data |-> data, read |-> 0,
                            block_offset |-> block_offset, panicked |-> FALSE],
                      start, blocks_to_act_on, 0)
  IN  [data |-> st.data, ret |-> IF st.panicked THEN 0 ELSE st.read,
       panicked |-> st.panicked]

Inode_size(ino) == ino.size

Inode_stat(ino) == <<ino.create_time, ino.access_time, ino.mod_time>>

\* -------------------------------------------------------------------- state
VARIABLES
  heap,     \* heap[rc]: the Inode behind the RcInode rc (Rc<RefCell<Box<Inode>>>),
            \* or the DirectoryContent behind the RcDirContent rc
  now,      \* the last reading of the clock (time::get_time)
  open,     \* the FileHandles constructed so far
  file,     \* file[h]: the File that FileHandle h owns
  seek,     \* seek[h]: the cursor of FileHandle h
  last,     \* the last call: its arguments and what it returned
  nops,     \* how many calls were made (bounds the runs)
  nwrites,  \* how many of them were Inode::write (history)
  lastw     \* Some(h, offset, data of the last Inode::write) if it returned,
            \* else None (history)

vars == <<heap, now, open, file, seek, last, nops, nwrites, lastw>>

Handles == {1, 2}
Whence == {"SeekSet", "SeekCur", "SeekEnd"}

\* the RcInode made at the start, which every DataFile of the model wraps
Root == 0

\* enum File: DataFile(RcInode) | Directory(RcDirContent) | EmptyFile
EmptyFile == [tag |-> "EmptyFile", rc |-> Root]
new_data_file(rc) == [tag |-> "DataFile", rc |-> rc]

\* The inputs of the calls. The code never looks at a byte it copies, so the
\* buffers are the patterns 1 2 1 .., 2 1 2 .. (non-zero: a page starts zeroed).
Pattern(n, s) == [i \in 1..n |-> ((s + i) % MaxByte) + 1]
DataSet == {Pattern(n, s) : n \in 0..MaxLen, s \in 1..MaxByte}
Zeroed(n) == [i \in 1..n |-> 0]
Offsets == 0..(MaxFileSize + PAGE_SIZE)
Deltas == {-1, 0, 1, MaxFileSize - 1, ISIZE_MAX}
Files == {new_data_file(Root), EmptyFile}

\* time::get_time(): a clock that never goes back
get_time == now..(IF now < MaxTime THEN now + 1 ELSE now)

Call(op, h, offset, data, ret, ok) ==
  [op |-> op, h |-> h, offset |-> offset, data |-> data, ret |-> ret, ok |-> ok]

Init ==
  /\ now = 0
  /\ heap = [rc \in {Root} |-> Inode_new(0)]
  /\ open = {}
  /\ file = [h \in Handles |-> EmptyFile]
  /\ seek = [h \in Handles |-> 0]
  /\ last = Call("Inode::new", 0, 0, <<>>, 0, TRUE)
  /\ nops = 0
  /\ nwrites = 0
  /\ lastw = None

\* inode.write(offset, data), called on the Inode itself (h = 0)
InodeWrite(offset, data) ==
  /\ nops < MaxInodeOps
  /\ \E time_now \in get_time :
       LET r == Inode_write(heap[Root], offset, data, time_now)
       IN  /\ heap' = [heap EXCEPT ![Root] = r.inode]
           /\ now' = IF r.panicked THEN now ELSE time_now
           /\ last' = Call("write", 0, offset, data, r.ret, ~r.panicked)
           /\ lastw' = IF r.panicked THEN None
                       ELSE Some([h |-> 0, offset |-> offset, data |-> data])
  /\ nops' = nops + 1
  /\ nwrites' = nwrites + 1
  /\ UNCHANGED <<open, file, seek>>

\* inode.read(offset, &mut [0u8; n]), called on the Inode itself (h = 0)
InodeRead(offset, n) ==
  /\ nops < MaxInodeOps
  /\ LET r == Inode_read(heap[Root], offset, Zeroed(n))
     IN  last' = Call("read", 0, offset, r.data, r.ret, ~r.panicked)
  /\ nops' = nops + 1
  /\ UNCHANGED <<heap, now, open, file, seek, nwrites, lastw>>

\* FileHandle_new over a File that holds a copy of the Inode (a deep clone of the
\* Box<Inode> where the code clones the Rc)
FileHandle_new_deep(h, f) ==
  /\ nops < MaxHandleOps
  /\ h \notin open
  /\ open' = open \cup {h}
  /\ IF f.tag = "DataFile"
     THEN /\ heap' = (h :> heap[f.rc]) @@ heap
          /\ file' = [file EXCEPT ![h] = new_data_file(h)]
     ELSE /\ heap' = heap
          /\ file' = [file EXCEPT ![h] = f]
  /\ seek' = [seek EXCEPT ![h] = 0]
  /\ last' = Call("FileHandle::new", h, 0, <<>>, 0, TRUE)
  /\ nops' = nops + 1
  /\ UNCHANGED <<now, nwrites, lastw>>

\* FileHandle::new(f)
FileHandle_new(h, f) ==
  /\ nops < MaxHandleOps
  /\ h \notin open
  /\ open' = open \cup {h}
  /\ file' = [file EXCEPT ![h] = f]
  /\ seek' = [seek EXCEPT ![h] = 0]
  /\ last' = Call("FileHandle::new", h, 0, <<>>, 0, TRUE)
  /\ nops' = nops + 1
  /\ UNCHANGED <<heap, now, nwrites, lastw>>

\* FileHandle_read that stamps access_time, as a Unix read does
FileHandle_read_atime(h, n) ==
  /\ nops < MaxHandleOps
  /\ h \in open
  /\ LET offset == seek[h]
     IN  IF file[h].tag # "DataFile"
         THEN /\ seek' = seek
              /\ last' = Call("read", h, offset, Zeroed(n), 0, FALSE)
              /\ UNCHANGED <<heap, now>>
         ELSE \E time_now \in get_time :
                LET inode_rc == file[h].rc
                    r == Inode_read(heap[inode_rc], offset, Zeroed(n))
                    changed == r.ret
                IN  /\ seek' = IF r.panicked THEN seek
                               ELSE [seek EXCEPT ![h] = offset + changed]
                    /\ last' = Call("read", h, offset, r.data, changed, ~r.panicked)
                    /\ heap' = [heap EXCEPT ![inode_rc].access_time = time_now]
                    /\ now' = time_now
  /\ nops' = nops + 1
  /\ UNCHANGED <<open, file, nwrites, lastw>>

\* File::get_inode_rc panics unless the File is a DataFile
FileHandle_read(h, n) ==
  /\ nops < MaxHandleOps
  /\ h \in open
  /\ LET offset == seek[h]
     IN  IF file[h].tag # "DataFile"
         THEN /\ seek' = seek
              /\ last' = Call("read", h, offset, Zeroed(n), 0, FALSE)
         ELSE LET inode_rc == file[h].rc
                  r == Inode_read(heap[inode_rc], offset, Zeroed(n))
                  changed == r.ret
              IN  /\ seek' = IF r.panicked THEN seek
                             ELSE [seek EXCEPT ![h] = offset + changed]
                  /\ last' = Call("read", h, offset, r.data, changed, ~r.panicked)
  /\ nops' = nops + 1
  /\ UNCHANGED <<heap, now, open, file, nwrites, lastw>>

\* FileHandle_write with one cursor shared by the handles of a File
FileHandle_write_shared(h, src) ==
  /\ nops < MaxHandleOps
  /\ h \in open
  /\ LET offset == seek[h]
     IN  IF file[h].tag # "DataFile"
         THEN /\ last' = Call("write", h, offset, src, 0, FALSE)
              /\ UNCHANGED <<heap, now, seek, nwrites, lastw>>
         ELSE \E time_now \in get_time :
                LET inode_rc == file[h].rc
                    r == Inode_write(heap[inode_rc], offset, src, time_now)
                    changed == r.ret
                IN  /\ heap' = [heap EXCEPT ![inode_rc] = r.inode]
                    /\ now' = IF r.panicked THEN now ELSE time_now
                    /\ seek' = IF r.panicked THEN seek
                               ELSE [g \in Handles |->
                                       IF g \in open /\ file[g] = file[h]
                                       THEN offset + changed ELSE seek[g]]
                    /\ last' = Call("write", h, offset, src, changed, ~r.panicked)
                    /\ lastw' = IF r.panicked THEN None
                                ELSE Some([h |-> h, offset |-> offset, data |-> src])
                    /\ nwrites' = nwrites + 1
  /\ nops' = nops + 1
  /\ UNCHANGED <<open, file>>

\* FileHandle_write that leaves the cursor where it was
FileHandle_write_noadvance(h, src) ==
  /\ nops < MaxHandleOps
  /\ h \in open
  /\ LET offset == seek[h]
     IN  IF file[h].tag # "DataFile"
         THEN /\ last' = Call("write", h, offset, src, 0, FALSE)
              /\ UNCHANGED <<heap, now, seek, nwrites, lastw>>
         ELSE \E time_now \in get_time :
                LET inode_rc == file[h].rc
                    r == Inode_write(heap[inode_rc], offset, src, time_now)
                    changed == r.ret
                IN  /\ heap' = [heap EXCEPT ![inode_rc] = r.inode]
                    /\ now' = IF r.panicked THEN now ELSE time_now
                    /\ seek' = seek
                    /\ last' = Call("write", h, offset, src, changed, ~r.panicked)
                    /\ lastw' = IF r.panicked THEN None
                                ELSE Some([h |-> h, offset |-> offset, data |-> src])
                    /\ nwrites' = nwrites + 1
  /\ nops' = nops + 1
  /\ UNCHANGED <<open, file>>

FileHandle_write(h, src) ==
  /\ nops < MaxHandleOps
  /\ h \in open
  /\ LET offset == seek[h]
     IN  IF file[h].tag # "DataFile"
         THEN /\ last' = Call("write", h, offset, src, 0, FALSE)
              /\ UNCHANGED <<heap, now, seek, nwrites, lastw>>
         ELSE \E time_now \in get_time :
                LET inode_rc == file[h].rc
                    r == Inode_write(heap[inode_rc], offset, src, time_now)
                    changed == r.ret
                IN  /\ heap' = [heap EXCEPT ![inode_rc] = r.inode]
                    /\ now' = IF r.panicked THEN now ELSE time_now
                    /\ seek' = IF r.panicked THEN seek
                               ELSE [seek EXCEPT ![h] = offset + changed]
                    /\ last' = Call("write", h, offset, src, changed, ~r.panicked)
                    /\ lastw' = IF r.panicked THEN None
                                ELSE Some([h |-> h, offset |-> offset, data |-> src])
                    /\ nwrites' = nwrites + 1
  /\ nops' = nops + 1
  /\ UNCHANGED <<open, file>>

\* the signed value FileHandle::seek computes before its cast to usize
seek_sum(cur, size, offset, whence) ==
  CASE whence = "SeekSet" -> offset
    [] whence = "SeekCur" -> as_isize(cur) + offset
    [] whence = "SeekEnd" -> as_isize(size) + offset

\* FileHandle_seek that grows the file to a cursor set past its end
FileHandle_seek_extend(h, offset, whence) ==
  /\ nops < MaxHandleOps
  /\ h \in open
  /\ IF file[h].tag # "DataFile"
     THEN /\ seek' = seek
          /\ heap' = heap
          /\ last' = Call(whence, h, offset, <<>>, 0, FALSE)
     ELSE LET inode_rc == file[h].rc
              sum == seek_sum(seek[h], Inode_size(heap[inode_rc]), offset, whence)
              new_seek == as_usize(sum)
          IN  \/ /\ seek' = [seek EXCEPT ![h] = new_seek]
                 /\ heap' = [heap EXCEPT ![inode_rc].size = Max(@, new_seek)]
                 /\ last' = Call(whence, h, offset, <<>>, new_seek, TRUE)
              \/ /\ sum \notin ISIZE_MIN..ISIZE_MAX
                 /\ seek' = seek
                 /\ heap' = heap
                 /\ last' = Call(whence, h, offset, <<>>, 0, FALSE)
  /\ nops' = nops + 1
  /\ UNCHANGED <<now, open, file, nwrites, lastw>>

\* isize's + overflows: it wraps in a release build and panics in a debug build
FileHandle_seek(h, offset, whence) ==
  /\ nops < MaxHandleOps
  /\ h \in open
  /\ IF file[h].tag # "DataFile"
     THEN /\ seek' = seek
          /\ last' = Call(whence, h, offset, <<>>, 0, FALSE)
     ELSE LET inode_rc == file[h].rc
              sum == seek_sum(seek[h], Inode_size(heap[inode_rc]), offset, whence)
              new_seek == as_usize(sum)
          IN  \/ /\ seek' = [seek EXCEPT ![h] = new_seek]
                 /\ last' = Call(whence, h, offset, <<>>, new_seek, TRUE)
              \/ /\ sum \notin ISIZE_MIN..ISIZE_MAX
                 /\ seek' = seek
                 /\ last' = Call(whence, h, offset, <<>>, 0, FALSE)
  /\ nops' = nops + 1
  /\ UNCHANGED <<heap, now, open, file, nwrites, lastw>>

\* the Inode used on its own, as its tests use it
Next ==
  \/ \E offset \in Offsets, data \in DataSet : InodeWrite(offset, data)
  \/ \E offset \in Offsets, n \in 0..MaxLen : InodeRead(offset, n)

Spec == Init /\ [][Next]_vars

\* the Inode used through FileHandles over Files
NextHandle ==
  \/ \E h \in Handles, f \in Files : FileHandle_new(h, f)
  \/ \E h \in Handles, n \in 0..MaxLen : FileHandle_read(h, n)
  \/ \E h \in Handles, src \in DataSet : FileHandle_write(h, src)
  \/ \E h \in Handles, offset \in Deltas, whence \in Whence :
       FileHandle_seek(h, offset, whence)

SpecHandle == Init /\ [][NextHandle]_vars

\* --------------------------------------------------------------- directories
Names == {"x", "y"}

\* File::new_dir: a Directory over a new DirectoryContent with no entries; the
\* parent passed in is not used
Directory(rc) == [tag |-> "Directory", rc |-> rc]
DirectoryContent == [entries |-> [k \in {} |-> EmptyFile]]
new_dir(parent, rc) == Directory(rc)

\* the Rc cells that hold a DirectoryContent, and those that hold an Inode
DirCells == {rc \in DOMAIN heap : "entries" \in DOMAIN heap[rc]}
InodeCells == DOMAIN heap \ DirCells

\* the address of the next Rc::new
FreshRc == 0 - Cardinality(DOMAIN heap)

\* every File the caller can hold: a File, or a clone of it, over any cell made
\* so far, and EmptyFile
AllFiles ==
  {EmptyFile} \cup {new_data_file(rc) : rc \in InodeCells}
              \cup {Directory(rc) : rc \in DirCells}

is_dir(f) == f.tag = "Directory"

\* #[derive(Clone)] on File: the clone of a File holds a clone of its Rc, which
\* points to the same cell
File_clone(f) == f

\* HashMap::get, HashMap::insert and HashMap::remove on entries
entries_get(entries, name) ==
  IF name \in DOMAIN entries THEN Some(entries[name]) ELSE None
entries_insert(entries, name, f) == (name :> f) @@ entries
entries_remove(entries, name) ==
  [k \in (DOMAIN entries) \ {name} |-> entries[k]]

\* what d.get(name) returns on heap hp, d a Directory
Dir_lookup(hp, d, name) ==
  LET found == entries_get(hp[d.rc].entries, name)
  IN  IF found = None THEN None ELSE Some(File_clone(Unwrap(found)))

\* the record of a call on a directory: the receiver, the name, the File passed
\* in, the File that HashMap::insert or HashMap::remove found under the name
\* (the code drops it), and the File returned
DirCall(op, d, name, f, old, res, ok) ==
  Call(op, 0, 0, <<[d |-> d, name |-> name, file |-> f, old |-> old,
                    res |-> res]>>, 0, ok)
DirOps == {"insert", "remove", "get"}

\* File::new_dir(parent)
File_new_dir(parent) ==
  /\ nops < MaxDirOps
  /\ Cardinality(DirCells) < MaxDirs
  /\ LET rc == FreshRc
         dir == new_dir(parent, rc)
     IN  /\ heap' = (rc :> DirectoryContent) @@ heap
         /\ last' = DirCall("new_dir", dir, "", None, None, Some(dir), TRUE)
  /\ nops' = nops + 1
  /\ UNCHANGED <<now, open, file, seek, nwrites, lastw>>

\* insert that keeps the File already stored under the name
Dir_insert_keep(d, name, f) ==
  /\ nops < MaxDirOps
  /\ IF ~is_dir(d)
     THEN /\ last' = DirCall("insert", d, name, Some(f), None, None, FALSE)
          /\ heap' = heap
     ELSE LET rc == d.rc
              content == heap[rc]
          IN  /\ heap' = [heap EXCEPT ![rc].entries =
                            IF name \in DOMAIN @ THEN @
                            ELSE entries_insert(@, name, f)]
              /\ last' = DirCall("insert", d, name, Some(f),
                                 entries_get(content.entries, name), None, TRUE)
  /\ nops' = nops + 1
  /\ UNCHANGED <<now, open, file, seek, nwrites, lastw>>

\* d.insert(name, f); File::get_dir_rc panics unless d is a Directory
Dir_insert(d, name, f) ==
  /\ nops < MaxDirOps
  /\ IF ~is_dir(d)
     THEN /\ last' = DirCall("insert", d, name, Some(f), None, None, FALSE)
          /\ heap' = heap
     ELSE LET rc == d.rc
              content == heap[rc]
          IN  /\ heap' = [heap EXCEPT ![rc].entries = entries_insert(@, name, f)]
              /\ last' = DirCall("insert", d, name, Some(f),
                                 entries_get(content.entries, name), None, TRUE)
  /\ nops' = nops + 1
  /\ UNCHANGED <<now, open, file, seek, nwrites, lastw>>

\* remove that clears the whole table
Dir_remove_clear(d, name) ==
  /\ nops < MaxDirOps
  /\ IF ~is_dir(d)
     THEN /\ last' = DirCall("remove", d, name, None, None, None, FALSE)
          /\ heap' = heap
     ELSE LET rc == d.rc
              content == heap[rc]
          IN  /\ heap' = [heap EXCEPT ![rc].entries = [k \in {} |-> EmptyFile]]
              /\ last' = DirCall("remove", d, name, None,
                                 entries_get(content.entries, name), None, TRUE)
  /\ nops' = nops + 1
  /\ UNCHANGED <<now, open, file, seek, nwrites, lastw>>

\* d.remove(name)
Dir_remove(d, name) ==
  /\ nops < MaxDirOps
  /\ IF ~is_dir(d)
     THEN /\ last' = DirCall("remove", d, name, None, None, None, FALSE)
          /\ heap' = heap
     ELSE LET rc == d.rc
              content == heap[rc]
          IN  /\ heap' = [heap EXCEPT ![rc].entries = entries_remove(@, name)]
              /\ last' = DirCall("remove", d, name, None,
                                 entries_get(content.entries, name), None, TRUE)
  /\ nops' = nops + 1
  /\ UNCHANGED <<now, open, file, seek, nwrites, lastw>>

\* get that returns a File over a copy of the cell (a deep clone of the Box
\* where the code clones the Rc)
Dir_get_deep(d, name) ==
  /\ nops < MaxDirOps
  /\ IF ~is_dir(d)
     THEN /\ last' = DirCall("get", d, name, None, None, None, FALSE)
          /\ heap' = heap
     ELSE LET found == entries_get(heap[d.rc].entries, name)
              stored == Unwrap(found)
              rc == FreshRc
          IN  IF found = None \/ stored.tag = "EmptyFile"
              THEN /\ last' = DirCall("get", d, name, None, None, found, TRUE)
                   /\ heap' = heap
              ELSE /\ heap' = (rc :> heap[stored.rc]) @@ heap
                   /\ last' = DirCall("get", d, name, None, None,
                                      Some([stored EXCEPT !.rc = rc]), TRUE)
  /\ nops' = nops + 1
  /\ UNCHANGED <<now, open, file, seek, nwrites, lastw>>

\* d.get(name)
Dir_get(d, name) ==
  /\ nops < MaxDirOps
  /\ IF ~is_dir(d)
     THEN last' = DirCall("get", d, name, None, None, None, FALSE)
     ELSE last' = DirCall("get", d, name, None, None,
                          Dir_lookup(heap, d, name), TRUE)
  /\ nops' = nops + 1
  /\ UNCHANGED <<heap, now, open, file, seek, nwrites, lastw>>

\* the File the last call returned, if it was a get that found one
Got ==
  IF last.op = "get" /\ last.ok /\ last.data[1].res # None
  THEN {Unwrap(last.data[1].res)}
  ELSE {}

\* what is written through the FileHandles made over the Files that get returns
DirData == {Pattern(1, 1), Pattern(PAGE_SIZE, 2)}

\* directories, and FileHandles over the Files got out of them
NextDir ==
  \/ \E parent \in {None} \cup {Some(f) : f \in AllFiles} : File_new_dir(parent)
  \/ \E d \in AllFiles, name \in Names, f \in AllFiles : Dir_insert(d, name, f)
  \/ \E d \in AllFiles, name \in Names : Dir_remove(d, name)
  \/ \E d \in AllFiles, name \in Names : Dir_get(d, name)
  \/ \E h \in Handles, f \in Got : FileHandle_new(h, f)
  \/ \E h \in Handles, src \in DirData : FileHandle_write(h, src)

SpecDir == Init /\ [][NextDir]_vars

\* ------------------------------------------------------------------- claims

\* C1: round trip. On a freshly constructed Inode, write(offset, bytes) with
\* offset + |bytes| <= MaxFileSize returns |bytes|, and a read(offset, buf) into a
\* zeroed buf of length |bytes| after it returns |bytes| and leaves buf = bytes.
C1_RoundTrip ==
  /\ (/\ last.op = "write"
      /\ nwrites = 1
      /\ last.offset + Len(last.data) <= MaxFileSize)
     => /\ last.ok
        /\ last.ret = Len(last.data)
        /\ LET r == Inode_read(heap[Root], last.offset, Zeroed(Len(last.data)))
           IN  ~r.panicked /\ r.ret = Len(last.data) /\ r.data = last.data
  /\ (/\ last.op = "read"
      /\ nwrites = 1
      /\ lastw # None
      /\ last.offset = Unwrap(lastw).offset
      /\ Len(last.data) = Len(Unwrap(lastw).data)
      /\ last.offset + Len(last.data) <= MaxFileSize)
     => /\ last.ok
        /\ last.ret = Len(last.data)
        /\ last.data = Unwrap(lastw).data

\* a read-back of a first write that started mid-page in the last direct page,
\* went on into the indirect pages and spanned more than two pages
C1_Witness ==
  /\ last.op = "read"
  /\ last.ok
  /\ nwrites = 1
  /\ lastw # None
  /\ last.offset = Unwrap(lastw).offset
  /\ last.data = Unwrap(lastw).data
  /\ last.offset = LIST_SIZE * PAGE_SIZE - 1
  /\ Len(last.data) > PAGE_SIZE + 1

\* C2: size monotonicity. The size never decreases, and after each write that
\* returns it is the maximum of the size before it and offset + |bytes|.
C2_SizeMonotone ==
  [][/\ heap'[Root].size >= heap[Root].size
     /\ (last'.op = "write" /\ last'.ok)
        => heap'[Root].size =
             Max(heap[Root].size, last'.offset + Len(last'.data))]_vars

\* a second write that returned and ended below the size
C2_Witness ==
  /\ last.op = "write"
  /\ last.ok
  /\ nwrites = 2
  /\ Len(last.data) > 0
  /\ last.offset + Len(last.data) < heap[Root].size

\* the DataFile handles, and the pages a call on [offset, offset + n) touches
DataHandles == {h \in open : file[h].tag = "DataFile"}
Touched(offset, n) == (offset \div PAGE_SIZE)..((offset + n - 1) \div PAGE_SIZE)
Absent(ino, num) == get_page(ino, num).panicked \/ get_page(ino, num).page = None

\* C3: handle aliasing. When a FileHandle reads a byte range inside the range the
\* last write, made through another FileHandle over the same inode handle, stored,
\* it reads exactly the bytes written there; and the DataFiles of all handles see
\* one inode size.
C3_HandleAliasing ==
  /\ (/\ last.op = "read"
      /\ last.h \in DataHandles
      /\ lastw # None
      /\ Unwrap(lastw).h \in DataHandles \ {last.h}
      /\ Unwrap(lastw).offset <= last.offset
      /\ last.offset + Len(last.data)
           <= Unwrap(lastw).offset + Len(Unwrap(lastw).data))
     => /\ last.ok
        /\ last.ret = Len(last.data)
        /\ last.data = SubSeq(Unwrap(lastw).data,
                              last.offset - Unwrap(lastw).offset + 1,
                              last.offset - Unwrap(lastw).offset + Len(last.data))
  /\ \A h1 \in DataHandles, h2 \in DataHandles :
       Inode_size(heap[file[h1].rc]) = Inode_size(heap[file[h2].rc])

\* one handle wrote, the other read the bytes back
C3_Witness ==
  /\ last.op = "read"
  /\ last.ok
  /\ last.h \in DataHandles
  /\ lastw # None
  /\ Unwrap(lastw).h \in DataHandles \ {last.h}
  /\ Len(last.data) > PAGE_SIZE
  /\ last.data = Unwrap(lastw).data
  /\ last.offset = Unwrap(lastw).offset

\* C4: cursor independence. A call on one FileHandle leaves the cursor of every
\* other FileHandle as it was, and a new FileHandle's cursor is 0.
C4_CursorIndependence ==
  [][/\ \A g \in Handles \ {last'.h} : seek'[g] = seek[g]
     /\ last'.op = "FileHandle::new" => seek'[last'.h] = 0]_vars

\* two handles over the inode, one of which wrote and moved on alone
C4_Witness ==
  /\ DataHandles = Handles
  /\ last.op = "write"
  /\ last.ok
  /\ Len(last.data) > 0
  /\ seek[last.h] = last.offset + Len(last.data)
  /\ \A g \in Handles \ {last.h} : seek[g] = 0

\* C5: cursor advance. A FileHandle write that returns is Inode::write at the
\* cursor c, returns |buf| and leaves the cursor at c + |buf|; a read that returns is
\* Inode::read at c and leaves the cursor at c + (bytes read); so two writes in a
\* row through one handle store their buffers one after the other.
C5_CursorAdvance ==
  [][/\ (last'.op = "write" /\ last'.ok /\ last'.h \in Handles)
        => /\ last'.offset = seek[last'.h]
           /\ last'.ret = Len(last'.data)
           /\ seek'[last'.h] = seek[last'.h] + Len(last'.data)
           /\ heap'[Root] = Inode_write(heap[Root], seek[last'.h], last'.data,
                                        now').inode
     /\ (last'.op = "read" /\ last'.ok /\ last'.h \in Handles)
        => LET r == Inode_read(heap[Root], seek[last'.h],
                               Zeroed(Len(last'.data)))
           IN  /\ last'.offset = seek[last'.h]
               /\ ~r.panicked
               /\ last'.data = r.data
               /\ last'.ret = r.ret
               /\ seek'[last'.h] = seek[last'.h] + r.ret
     /\ (/\ last.op = "write" /\ last.ok /\ last.h \in Handles
         /\ last'.op = "write" /\ last'.ok /\ last'.h = last.h)
        => LET r == Inode_read(heap'[Root], last.offset,
                               Zeroed(Len(last.data) + Len(last'.data)))
           IN  ~r.panicked /\ r.data = last.data \o last'.data]_vars

\* the second of two writes in a row through the only handle
C5_Witness ==
  /\ nops = 3
  /\ nwrites = 2
  /\ last.op = "write"
  /\ last.ok
  /\ last.h \in Handles
  /\ last.offset > 0
  /\ Len(last.data) > 0
  /\ seek[last.h] = last.offset + Len(last.data)

\* C6: a write that fails with FileTooLarge leaves the inode exactly as it was
\* before the call.
C6_FailedWriteNoChange ==
  [][(last'.op = "write" /\ ~last'.ok) => heap' = heap]_vars

\* C7: a read into a non-empty buf fails whenever offset + |buf| > size, and
\* whenever a page of its range is absent.
C7_ReadBounds ==
  (/\ last.op = "read"
   /\ last.h = 0
   /\ Len(last.data) > 0
   /\ \/ last.offset + Len(last.data) > Inode_size(heap[Root])
      \/ \E num \in Touched(last.offset, Len(last.data)) : Absent(heap[Root], num))
  => ~last.ok

\* the target of seek(offset, whence) as the signed sum it stands for
seek_target(cur, size, offset, whence) ==
  CASE whence = "SeekSet" -> offset
    [] whence = "SeekCur" -> cur + offset
    [] whence = "SeekEnd" -> size + offset

\* C8: seek sets the cursor to its target and returns it when the target is >= 0,
\* and fails with InvalidSeek, the cursor kept, when the target is negative.
C8_SeekValidity ==
  [][(last'.op \in Whence /\ last'.h \in DataHandles)
     => LET h == last'.h
            target == seek_target(seek[h], Inode_size(heap[Root]),
                                  last'.offset, last'.op)
        IN  IF target >= 0
            THEN last'.ok /\ last'.ret = target /\ seek'[h] = target
            ELSE ~last'.ok /\ seek'[h] = seek[h]]_vars

\* C9: a seek, also one past the end of the file, changes nothing of the inode;
\* a non-empty write that returns at the cursor c then leaves
\* size = max(old size, c + |buf|).
C9_SeekFrame ==
  [][/\ last'.op \in Whence => heap' = heap /\ now' = now
     /\ (/\ last'.op = "write" /\ last'.ok /\ last'.h \in Handles
         /\ Len(last'.data) > 0)
        => Inode_size(heap'[Root]) =
             Max(Inode_size(heap[Root]), seek[last'.h] + Len(last'.data))]_vars

\* the first write, through a handle whose cursor a seek had set past the end
C9_Witness ==
  /\ nwrites = 1
  /\ last.op = "write"
  /\ last.ok
  /\ last.h \in Handles
  /\ last.offset > PAGE_SIZE
  /\ Len(last.data) > 0
  /\ Inode_size(heap[Root]) = last.offset + Len(last.data)

\* C10: a read, returning or failing, changes nothing of the inode (size,
\* timestamps, pages, indirect blocks); a FileHandle read changes only that
\* handle's cursor.
C10_ReadPure ==
  [][last'.op = "read"
     => /\ heap' = heap
        /\ now' = now
        /\ open' = open
        /\ file' = file
        /\ \A g \in Handles \ {last'.h} : seek'[g] = seek[g]]_vars

\* a handle read that returned bytes of a file written before
C10_Witness ==
  /\ last.op = "read"
  /\ last.h \in DataHandles
  /\ last.ok
  /\ last.ret > 0
  /\ seek[last.h] = last.offset + last.ret
  /\ nwrites > 0

\* C12: timestamp discipline.  A new Inode has create_time = mod_time =
\* access_time; whatever has been done to the inode since, create_time is the
\* value it got at construction; and right after a successful write of at least
\* one byte mod_time = access_time, neither before create_time (the clock never
\* runs backwards).
C12_Timestamps ==
  LET ino == heap[Root]
  IN  /\ (last.op = "Inode::new") =>
           /\ ino.create_time = ino.mod_time
           /\ ino.create_time = ino.access_time
      /\ ino.create_time = Inode_new(0).create_time
      /\ (last.op = "write" /\ last.ok /\ Len(last.data) > 0) =>
           /\ ino.mod_time = ino.access_time
           /\ ino.mod_time >= ino.create_time
           /\ ino.access_time >= ino.create_time

\* a write of at least one byte has succeeded after the clock moved on
C12_Witness ==
  /\ last.op = "write" /\ last.ok /\ Len(last.data) > 0
  /\ heap[Root].mod_time > heap[Root].create_time
  /\ heap[Root].access_time = heap[Root].mod_time

\* C13: a write of zero bytes is a no-op: for every inode state and every
\* offset it returns 0 and leaves mod_time and access_time as they were.
C13_EmptyWriteNoOp ==
  [][(last'.op = "write" /\ Len(last'.data) = 0) =>
       /\ last'.ok
       /\ last'.ret = 0
       /\ heap'[Root].mod_time = heap[Root].mod_time
       /\ heap'[Root].access_time = heap[Root].access_time]_vars

Written(ino, offset, data) == Inode_write(ino, offset, data, now).inode

\* the part of an inode that C15 compares: the pages with their contents, the
\* allocated slots and indirect blocks, and the size
SameStore(a, b) ==
  /\ a.single = b.single
  /\ a.double = b.double
  /\ a.size = b.size

\* C15: page independence.  For every inode state and every two writes A and B
\* that touch disjoint ranges of pages, A then B and B then A leave the same
\* page contents, the same allocated pages and indirect blocks and the same size.
\* The inode states are the new inode and every state one write (returned or
\* failed) leaves; the two orders are run at one clock reading, and each
\* unordered pair of writes is taken once.
C15_PageIndependence ==
  (nops < MaxInodeOps /\ nops = nwrites /\ now = 0) =>
    LET first == [o \in Offsets, d \in DataSet |-> Written(heap[Root], o, d)]
    IN  \A oA \in Offsets, oB \in Offsets, dA \in DataSet, dB \in DataSet :
          (/\ oA <= oB
           /\ Touched(oA, Len(dA)) \cap Touched(oB, Len(dB)) = {}) =>
            SameStore(Written(first[oA, dA], oB, dB),
                      Written(first[oB, dB], oA, dA))

\* an inode that holds data, on which two writes to different pages of the first
\* indirect block, neither allocated yet, give one result in both orders
C15_Witness ==
  /\ nops = 1 /\ nwrites = 1 /\ now = 0
  /\ last.op = "write" /\ last.ok /\ Len(last.data) > 0
  /\ heap[Root].double[1] = None
  /\ LET oA == PAGE_SIZE * LIST_SIZE
         oB == PAGE_SIZE * (LIST_SIZE + 1)
         ab == Written(Written(heap[Root], oA, Pattern(1, 1)), oB, Pattern(2, 2))
         ba == Written(Written(heap[Root], oB, Pattern(2, 2)), oA, Pattern(1, 1))
     IN  /\ SameStore(ab, ba)
         /\ ~Absent(ab, LIST_SIZE)
         /\ ~Absent(ab, LIST_SIZE + 1)
         /\ ab.size = oB + 2

\* the canonical slot of page num: single[num] below LIST_SIZE, else entry
\* (num - LIST_SIZE) mod LIST_SIZE of indirect block (num - LIST_SIZE) / LIST_SIZE;
\* None when the page, or its indirect block, is not allocated
CanonSlot(ino, num) ==
  IF num < LIST_SIZE
  THEN ino.single[num + 1]
  ELSE LET block == ino.double[((num - LIST_SIZE) \div LIST_SIZE) + 1]
       IN  IF block = None
           THEN None
           ELSE Unwrap(block)[((num - LIST_SIZE) % LIST_SIZE) + 1]

\* the byte stored at position pos, -1 when its page is not allocated
ByteAt(ino, pos) ==
  LET slot == CanonSlot(ino, pos \div PAGE_SIZE)
  IN  IF slot = None THEN -1 ELSE Unwrap(slot)[(pos % PAGE_SIZE) + 1]

\* C18: write frame, last writer wins.  A successful write(offset, data) changes
\* exactly the bytes at offset .. offset + Len(data) - 1: each of them holds its
\* byte of data, every other byte of a page that was there keeps its value, and
\* every other byte of a page the write allocates is zero.  So a read that
\* succeeds returns, position by position, the byte of the latest write over
\* it, or 0 where no write came.
C18_WriteFrame ==
  [][(last'.op = "write" /\ last'.ok) =>
       \A pos \in 0..(MaxFileSize - 1) :
         LET before == ByteAt(heap[Root], pos)
             after == ByteAt(heap'[Root], pos)
             covered == pos >= last'.offset /\ pos < last'.offset + Len(last'.data)
             expected == IF covered THEN last'.data[pos - last'.offset + 1]
                         ELSE IF before = -1 THEN 0 ELSE before
             r == Inode_read(heap'[Root], pos, Zeroed(1))
         IN  /\ covered => after = expected
             /\ (~covered /\ before # -1) => after = before
             /\ (~covered /\ before = -1) => after \in {-1, 0}
             /\ ~r.panicked => (r.ret = 1 /\ r.data = <<expected>>)]_vars

\* a second write has gone into a page that held bytes of the first, and the
\* page holds bytes of both
C18_Witness ==
  /\ nwrites = 2 /\ last.op = "write" /\ last.ok /\ Len(last.data) = 1
  /\ last.offset % PAGE_SIZE = 1
  /\ ByteAt(heap[Root], last.offset) = last.data[1]
  /\ ByteAt(heap[Root], last.offset - 1) > 0
  /\ ByteAt(heap[Root], last.offset - 1) # last.data[1]

\* C19: canonical slots, allocation on demand.  A successful write of at least
\* one byte allocates exactly the pages offset / PAGE_SIZE ..
\* (offset + Len(data) - 1) / PAGE_SIZE that were absent, each in its canonical
\* slot, allocates an indirect block only when the block covers one of those
\* pages, and leaves every other slot as it was; and no operation ever frees a
\* page or an indirect block.
C19_CanonicalSlots ==
  [][LET touched == Touched(last'.offset, Len(last'.data))
         blockOf(num) == ((num - LIST_SIZE) \div LIST_SIZE) + 1
     IN  /\ (last'.op = "write" /\ last'.ok /\ Len(last'.data) > 0) =>
              /\ \A num \in 0..(MaxPages - 1) :
                   /\ (CanonSlot(heap'[Root], num) # None) <=>
                        (CanonSlot(heap[Root], num) # None \/ num \in touched)
                   /\ (num \notin touched) =>
                        CanonSlot(heap'[Root], num) = CanonSlot(heap[Root], num)
              /\ \A b \in 1..LIST_SIZE :
                   (heap'[Root].double[b] # None) <=>
                     \/ heap[Root].double[b] # None
                     \/ \E num \in touched : num >= LIST_SIZE /\ blockOf(num) = b
         /\ \A num \in 0..(MaxPages - 1) :
              (CanonSlot(heap[Root], num) # None) =>
                (CanonSlot(heap'[Root], num) # None)
         /\ \A b \in 1..LIST_SIZE :
              (heap[Root].double[b] # None) => (heap'[Root].double[b] # None)]_vars

\* one page written at offset LIST_SIZE * PAGE_SIZE of a new inode: entry 0 of
\* indirect block 0 is allocated, and no direct slot
C19_Witness ==
  /\ nops = 1 /\ last.op = "write" /\ last.ok
  /\ last.offset = LIST_SIZE * PAGE_SIZE /\ Len(last.data) = PAGE_SIZE
  /\ \A n \in 1..LIST_SIZE : heap[Root].single[n] = None
  /\ heap[Root].double[1] # None
  /\ Unwrap(heap[Root].double[1])[1] = Some(last.data)
  /\ \A n \in 2..LIST_SIZE : Unwrap(heap[Root].double[1])[n] = None
  /\ \A b \in 2..LIST_SIZE : heap[Root].double[b] = None

\* C20: the size stays in the addressable range.  In every state that a
\* sequence of writes reaches (returned or failed, of any length, at any
\* offset), size <= MaxFileSize = (LIST_SIZE + LIST_SIZE * LIST_SIZE) * PAGE_SIZE,
\* and every position below size lies in a page of index below MaxPages.
C20_SizeInRange ==
  /\ heap[Root].size <= MaxFileSize
  /\ \A pos \in 0..(heap[Root].size - 1) : pos \div PAGE_SIZE < MaxPages

\* C11: insert, replace, remove.  After insert(n, f) the directory holds exactly
\* one entry for n and get(n) returns a File over the cell of f, whatever File
\* an earlier insert(n, ..) had stored there; after remove(n), get(n) returns
\* None; and this holds in every state that inserts and removes lead to.  The
\* first two conjuncts look at the table right after the insert or the remove,
\* the last two at a get that follows it on the same directory and name.
C11_InsertReplaceRemove ==
  [][LET c == last'.data[1]
         p == last.data[1]
         follows(op) == /\ last.op = op /\ last.ok
                        /\ last'.op = "get" /\ last'.ok
                        /\ p.d.rc = c.d.rc /\ p.name = c.name
     IN  /\ (last'.op = "insert" /\ last'.ok) =>
              /\ Dir_lookup(heap', c.d, c.name) = c.file
              /\ Cardinality({k \in DOMAIN heap'[c.d.rc].entries : k = c.name}) = 1
         /\ (last'.op = "remove" /\ last'.ok) =>
              Dir_lookup(heap', c.d, c.name) = None
         /\ follows("insert") => (c.res = p.file /\ Unwrap(c.res).rc = Unwrap(p.file).rc)
         /\ follows("remove") => c.res = None]_vars

\* an insert has replaced the File stored under the name by a File over another
\* cell, and get returns the new one
C11_Witness ==
  /\ last.op = "insert" /\ last.ok
  /\ LET c == last.data[1]
     IN  /\ c.old # None
         /\ Unwrap(c.old).rc # Unwrap(c.file).rc
         /\ Unwrap(c.file).tag = "DataFile"
         /\ Dir_lookup(heap, c.d, c.name) = c.file
         /\ Dir_lookup(heap, c.d, c.name) # c.old

\* C16: directory frame.  insert(n, f) and remove(n) change at most the entry
\* for n: every other name of the directory, and every other directory and
\* inode, is as before; remove(n) with n absent changes nothing and signals no
\* error; get changes nothing.
C16_DirectoryFrame ==
  [][(last'.op \in DirOps /\ is_dir(last'.data[1].d)) =>
       LET c == last'.data[1]
           rc == c.d.rc
       IN  /\ last'.ok
           /\ DOMAIN heap' = DOMAIN heap
           /\ \A other \in (DOMAIN heap) \ {rc} : heap'[other] = heap[other]
           /\ \A k \in Names \ {c.name} :
                entries_get(heap'[rc].entries, k) = entries_get(heap[rc].entries, k)
           /\ (last'.op = "remove" /\ c.name \notin DOMAIN heap[rc].entries) =>
                heap' = heap
           /\ (last'.op = "get") => heap' = heap]_vars

\* a remove of a name that is absent, on a directory that holds another name
C16_Witness ==
  /\ last.op = "remove" /\ last.ok
  /\ LET c == last.data[1]
     IN  /\ c.old = None
         /\ c.name \notin DOMAIN heap[c.d.rc].entries
         /\ DOMAIN heap[c.d.rc].entries # {}

====
